---- MODULE Spec2Model ----
(***************************************************************************)
(* Packing puzzle: pieces, the orientation generator of a template, the    *)
(* target region and the backtracking solver.                              *)
(*                                                                         *)
(* Four specifications share the definitions of the data operations:       *)
(*   PieceSpec  two Pieces under Piece::new / transform / translate        *)
(*   IterSpec   one PieceIterator driven by next() until it returns None   *)
(*   PackSpec   one Target under fits / place                              *)
(*   Spec       solve(target, bag, when_solved), the recursion unrolled    *)
(*              into an explicit stack of solve_with frames                *)
(*                                                                         *)
(* Coordinates are i8.  i8 arithmetic that leaves -128..127 panics in a    *)
(* build with overflow checks and wraps in a build without them; which     *)
(* build runs is the variable overflowChecks, chosen in Init.              *)
(***************************************************************************)
EXTENDS Integers, Sequences, FiniteSets, TLC

VARIABLES
    overflowChecks, \* TRUE: arithmetic overflow panics; FALSE: it wraps
    pa, pb,         \* PieceSpec: two Pieces
    pieceOps,       \* PieceSpec: transform / translate calls made so far
    iter,           \* IterSpec: a PieceIterator and what its last next() gave
    pack,           \* PackSpec: original Target, current Target, placed Pieces
    input,          \* Spec: the arguments of solve
    pc,             \* Spec: "running", "done" (solve returned), "panicked"
    stack,          \* Spec: the active solve_with calls, innermost last
    solutions,      \* Spec: the Solutions handed to when_solved, in order
    bagIterations   \* Spec: how many times a Bag was turned into an iterator

vars == <<overflowChecks, pa, pb, pieceOps, iter, pack, input, pc, stack, solutions,
          bagIterations>>

(***************************************************************************)
(* Bounds of the model.                                                    *)
(***************************************************************************)
MaxTemplateCells == 4   \* IterSpec: templates are the subsets of the unit
                        \* cube's corners with at most this many cells
MaxBoxCells == 4        \* Spec: box targets have at most this many cells
MaxCount == 2           \* Spec: copies per supply entry (or unlimited)
MaxPlaced == 3          \* PackSpec: pieces placed in one run
MaxPieceOps == 2        \* PieceSpec: transform / translate calls in one run

(***************************************************************************)
(* i8 and Option                                                           *)
(***************************************************************************)
I8Min == -128
I8Max == 127
I8Modulus == 256

InI8(n) == n >= I8Min /\ n <= I8Max

\* Two's-complement wrap of an integer into i8.
Wrap8(n) == ((n - I8Min) % I8Modulus) + I8Min

\* `let value = ...` of an eagerly evaluated language: the body sees the
\* value, computed once.
Let(value, Body(_)) == CHOOSE result \in {Body(v) : v \in {value}} : TRUE

None == <<>>
Some(x) == <<x>>
IsSome(o) == Len(o) = 1
Unwrap(o) == o[1]

Origin == <<0, 0, 0>>

(***************************************************************************)
(* Vector arithmetic on (i8, i8, i8).  Each operation gives the wrapped    *)
(* value and whether any component overflowed.                             *)
(***************************************************************************)
VectorAdd(a, b) ==
    [val |-> <<Wrap8(a[1] + b[1]), Wrap8(a[2] + b[2]), Wrap8(a[3] + b[3])>>,
     overflow |-> \E i \in 1..3 : ~InI8(a[i] + b[i])]

VectorDifference(a, b) ==
    [val |-> <<Wrap8(a[1] - b[1]), Wrap8(a[2] - b[2]), Wrap8(a[3] - b[3])>>,
     overflow |-> \E i \in 1..3 : ~InI8(a[i] - b[i])]

(***************************************************************************)
(* Position: ordered lexicographically (derived Ord of the tuple).         *)
(***************************************************************************)
PositionLess(a, b) ==
    \/ a[1] < b[1]
    \/ a[1] = b[1] /\ a[2] < b[2]
    \/ a[1] = b[1] /\ a[2] = b[2] /\ a[3] < b[3]

PositionLeq(a, b) == a = b \/ PositionLess(a, b)

\* position.to(other): the translation carrying position onto other.
PositionTo(position, other) == VectorDifference(other, position)

\* position.to_reference(): the translation carrying position onto the origin.
ToReference(position) == VectorDifference(Origin, position)

\* position.translate(translation)
PositionTranslate(position, translation) == VectorAdd(position, translation)

(***************************************************************************)
(* CubeSymmetry: the 24 rotations of the cube, as signed permutations of   *)
(* the axes with determinant +1.  CubeSymmetryIterator yields them in this *)
(* order.                                                                  *)
(***************************************************************************)
CubeSymmetries ==
  << [perm |-> <<1, 2, 3>>, sign |-> <<1, 1, 1>>],
     [perm |-> <<1, 2, 3>>, sign |-> <<1, -1, -1>>],
     [perm |-> <<1, 2, 3>>, sign |-> <<-1, 1, -1>>],
     [perm |-> <<1, 2, 3>>, sign |-> <<-1, -1, 1>>],
     [perm |-> <<1, 3, 2>>, sign |-> <<1, 1, -1>>],
     [perm |-> <<1, 3, 2>>, sign |-> <<1, -1, 1>>],
     [perm |-> <<1, 3, 2>>, sign |-> <<-1, 1, 1>>],
     [perm |-> <<1, 3, 2>>, sign |-> <<-1, -1, -1>>],
     [perm |-> <<2, 1, 3>>, sign |-> <<1, 1, -1>>],
     [perm |-> <<2, 1, 3>>, sign |-> <<1, -1, 1>>],
     [perm |-> <<2, 1, 3>>, sign |-> <<-1, 1, 1>>],
     [perm |-> <<2, 1, 3>>, sign |-> <<-1, -1, -1>>],
     [perm |-> <<2, 3, 1>>, sign |-> <<1, 1, 1>>],
     [perm |-> <<2, 3, 1>>, sign |-> <<1, -1, -1>>],
     [perm |-> <<2, 3, 1>>, sign |-> <<-1, 1, -1>>],
     [perm |-> <<2, 3, 1>>, sign |-> <<-1, -1, 1>>],
     [perm |-> <<3, 1, 2>>, sign |-> <<1, 1, 1>>],
     [perm |-> <<3, 1, 2>>, sign |-> <<1, -1, -1>>],
     [perm |-> <<3, 1, 2>>, sign |-> <<-1, 1, -1>>],
     [perm |-> <<3, 1, 2>>, sign |-> <<-1, -1, 1>>],
     [perm |-> <<3, 2, 1>>, sign |-> <<1, 1, -1>>],
     [perm |-> <<3, 2, 1>>, sign |-> <<1, -1, 1>>],
     [perm |-> <<3, 2, 1>>, sign |-> <<-1, 1, 1>>],
     [perm |-> <<3, 2, 1>>, sign |-> <<-1, -1, -1>> ] >>

\* The symmetry of the test piece_should_tranform: (x, y, z) -> (y, x, -z).
E2103 == [perm |-> <<2, 1, 3>>, sign |-> <<1, 1, -1>>]

\* One component of a transformed position: a coordinate, kept or negated.
SignedCoordinate(sign, c) == IF sign = 1 THEN c ELSE Wrap8(0 - c)

\* position.transform(symmetry)
PositionTransform(position, symmetry) ==
    [val |-> << SignedCoordinate(symmetry.sign[1], position[symmetry.perm[1]]),
                SignedCoordinate(symmetry.sign[2], position[symmetry.perm[2]]),
                SignedCoordinate(symmetry.sign[3], position[symmetry.perm[3]]) >>,
     overflow |-> \E i \in 1..3 :
                     symmetry.sign[i] = -1 /\ position[symmetry.perm[i]] = I8Min]

(***************************************************************************)
(* Vec<Position>: sort (stable; repeated positions are kept), contains,    *)
(* min.                                                                    *)
(***************************************************************************)
\* Where positions[i] stands after a stable sort: behind every smaller
\* position and every equal one that came before it.
SortedIndex(positions, i) ==
    Cardinality({j \in 1..Len(positions) :
                    \/ PositionLess(positions[j], positions[i])
                    \/ positions[j] = positions[i] /\ j < i}) + 1

\* positions.sort()
SortPositions(positions) ==
    Let(positions, LAMBDA ps :
        [r \in 1..Len(ps) |-> ps[CHOOSE i \in 1..Len(ps) : SortedIndex(ps, i) = r]])

Contains(positions, position) == \E i \in 1..Len(positions) : positions[i] = position

\* iter().min().cloned()
MinimumOf(positions) ==
    IF positions = <<>> THEN None
    ELSE Some(CHOOSE p \in {positions[i] : i \in 1..Len(positions)} :
                 \A j \in 1..Len(positions) : PositionLeq(p, positions[j]))

CellSet(positions) == {positions[i] : i \in 1..Len(positions)}

(***************************************************************************)
(* Piece                                                                   *)
(***************************************************************************)
\* Piece::new: sorts the positions, stores them as given otherwise.
PieceNew(positions) == [positions |-> SortPositions(positions), name |-> None]

\* Piece::named: as new, with a name.
PieceNamed(positions, name) ==
    [positions |-> SortPositions(positions), name |-> Some(name)]

\* Derived PartialEq: positions and name, field by field.
PieceEq(p, q) == p.positions = q.positions /\ p.name = q.name

PieceContains(piece, position) == Contains(piece.positions, position)

PieceMinimumPosition(piece) == MinimumOf(piece.positions)

\* Piece::transform: every position transformed, then the vector sorted.
PieceTransform(piece, symmetry) ==
    Let([i \in 1..Len(piece.positions) |-> PositionTransform(piece.positions[i], symmetry)],
        LAMBDA moved :
            [val |-> [piece EXCEPT !.positions =
                        SortPositions([i \in 1..Len(moved) |-> moved[i].val])],
             overflow |-> \E i \in 1..Len(moved) : moved[i].overflow])

\* Piece::translate: every position translated; the vector is not sorted again.
PieceTranslate(piece, translation) ==
    Let([i \in 1..Len(piece.positions) |-> PositionTranslate(piece.positions[i], translation)],
        LAMBDA moved :
            [val |-> [piece EXCEPT !.positions = [i \in 1..Len(moved) |-> moved[i].val]],
             overflow |-> \E i \in 1..Len(moved) : moved[i].overflow])

(***************************************************************************)
(* Template and its PieceIterator                                          *)
(***************************************************************************)
TemplateNew(positions) == [positions |-> positions, name |-> None]

TemplateWithName(template, name) == [template EXCEPT !.name = Some(name)]

\* From<Template> for Piece
PieceFromTemplate(template) ==
    IF IsSome(template.name)
    THEN PieceNamed(template.positions, Unwrap(template.name))
    ELSE PieceNew(template.positions)

PieceIteratorNew(template) == [template |-> template, symmetry |-> 0, seen |-> <<>>]

\* A de-duplication that compares with the most recently seen piece only.
SeenContainsLast(seen, piece) == seen # <<>> /\ PieceEq(seen[Len(seen)], piece)

SeenContains(seen, piece) == \E i \in 1..Len(seen) : PieceEq(seen[i], piece)

\* The closure of PieceIterator::next: the template as a Piece, transformed,
\* then translated by its minimum position's to_reference().
\* kind: "piece", or "panic" (unwrap of None, or an overflow under checks).
OrientedPiece(template, symmetry, checked) ==
    Let(PieceTransform(PieceFromTemplate(template), symmetry), LAMBDA transformed :
    Let(PieceMinimumPosition(transformed.val), LAMBDA minimum_position :
        IF transformed.overflow /\ checked THEN [kind |-> "panic"]
        ELSE IF ~IsSome(minimum_position) THEN [kind |-> "panic"]
        ELSE
    Let(ToReference(Unwrap(minimum_position)), LAMBDA translation :
    Let(PieceTranslate(transformed.val, translation.val), LAMBDA translated :
        IF (translation.overflow \/ translated.overflow) /\ checked
        THEN [kind |-> "panic"]
        ELSE [kind |-> "piece", piece |-> translated.val]))))

\* PieceIterator::next: symmetries are consumed until one gives a piece not
\* seen before (returned and remembered) or none is left (None).
RECURSIVE PieceIteratorNext(_, _)
PieceIteratorNext(it, checked) ==
    IF it.symmetry = Len(CubeSymmetries)
    THEN [kind |-> "none", it |-> it]
    ELSE
    Let(OrientedPiece(it.template, CubeSymmetries[it.symmetry + 1], checked), LAMBDA oriented :
    Let([it EXCEPT !.symmetry = @ + 1], LAMBDA advanced :
        IF oriented.kind = "panic" THEN [kind |-> "panic", it |-> advanced]
        ELSE IF ~SeenContains(it.seen, oriented.piece)
        THEN [kind |-> "some", piece |-> oriented.piece,
              it |-> [advanced EXCEPT !.seen = Append(@, oriented.piece)]]
        ELSE PieceIteratorNext(advanced, checked)))

(***************************************************************************)
(* Target                                                                  *)
(***************************************************************************)
\* Target::new: the collection is stored as given.
TargetNew(collection) == collection

\* An is_packed with the test inverted.
TargetIsPackedInverted(target) == target # <<>>

TargetIsPacked(target) == target = <<>>

\* A fits that is satisfied by one position of the piece.
TargetFitsAny(target, piece) ==
    \E i \in 1..Len(piece.positions) : Contains(target, piece.positions[i])

\* Target::fits: every position of the piece is in the collection.
TargetFits(target, piece) ==
    \A i \in 1..Len(piece.positions) : Contains(target, piece.positions[i])

\* A place that removes the piece's first position only.
TargetPlaceFirst(target, piece) ==
    TargetNew(SelectSeq(target, LAMBDA position : position # piece.positions[1]))

\* Target::place: the collection without the positions the piece contains.
TargetPlace(target, piece) ==
    TargetNew(SelectSeq(target, LAMBDA position : ~PieceContains(piece, position)))

TargetMinimumPosition(target) == MinimumOf(target)

(***************************************************************************)
(* Solution                                                                *)
(***************************************************************************)
SolutionEmpty == <<>>

\* A record that puts the piece in front.
SolutionRecordFirst(solution, piece) == <<piece>> \o solution

\* Solution::record: a new Solution, the piece pushed at the end.
SolutionRecord(solution, piece) == Append(solution, piece)

(***************************************************************************)
(* Bag: the supply, a list of (count, Template) entries; an entry may be   *)
(* unlimited.  Iterating it yields, for each entry that has a copy left,   *)
(* the template and the bag with one copy of that entry taken.             *)
(***************************************************************************)
BagNew(entries) == entries

BagAvailable(entry) == entry.unlimited \/ entry.count > 0

BagTake(bag, i) ==
    [bag EXCEPT ![i].count = IF bag[i].unlimited THEN @ ELSE @ - 1]

BagItems(bag) ==
    Let(SelectSeq([i \in 1..Len(bag) |-> i], LAMBDA i : BagAvailable(bag[i])),
        LAMBDA available :
        [k \in 1..Len(available) |->
            [template |-> bag[available[k]].template,
             rest |-> BagTake(bag, available[k])]])

(***************************************************************************)
(* solve / solve_with.  A frame is one active call of solve_with:          *)
(*   phase "enter"     the call has just been made                         *)
(*   phase "bag"       in `for (template, rest_of_bag) in bag`             *)
(*   phase "template"  in `for mut piece in template`                      *)
(*   phase "piece"     a piece has been yielded and is being tried         *)
(***************************************************************************)
NoIterator == PieceIteratorNew(TemplateNew(<<>>))
NoPiece == PieceNew(<<>>)

Frame(target, bag, partial_solution) ==
    [target |-> target, bag |-> bag, partial |-> partial_solution,
     phase |-> "enter", items |-> <<>>, item |-> 0,
     it |-> NoIterator, piece |-> NoPiece]

Top == stack[Len(stack)]

SetTop(frame) == [stack EXCEPT ![Len(stack)] = frame]

\* The innermost call returns; solve returns when it was the outermost.
Return ==
    /\ stack' = SubSeq(stack, 1, Len(stack) - 1)
    /\ pc' = IF Len(stack) = 1 THEN "done" ELSE "running"

Running == pc = "running" /\ stack # <<>>

\* if target.is_packed() { when_solved(partial_solution) }
WhenSolved ==
    /\ Running /\ Top.phase = "enter"
    /\ TargetIsPacked(Top.target)
    /\ solutions' = Append(solutions, Top.partial)
    /\ Return
    /\ UNCHANGED <<overflowChecks, pa, pb, pieceOps, iter, pack, input, bagIterations>>

\* else: target.minimum_position().unwrap(), then the bag is turned into its
\* iterator.
BeginSearch ==
    /\ Running /\ Top.phase = "enter"
    /\ ~TargetIsPacked(Top.target)
    /\ IF IsSome(TargetMinimumPosition(Top.target))
       THEN /\ stack' = SetTop([Top EXCEPT !.phase = "bag",
                                           !.items = BagItems(Top.bag), !.item = 0])
            /\ bagIterations' = bagIterations + 1
            /\ pc' = pc
       ELSE /\ pc' = "panicked"
            /\ UNCHANGED <<stack, bagIterations>>
    /\ UNCHANGED <<overflowChecks, pa, pb, pieceOps, iter, pack, input, solutions>>

\* The bag's iterator yields (template, rest_of_bag); template.into_iter().
NextTemplate ==
    /\ Running /\ Top.phase = "bag"
    /\ Top.item < Len(Top.items)
    /\ stack' = SetTop([Top EXCEPT !.phase = "template", !.item = @ + 1,
                          !.it = PieceIteratorNew(Top.items[Top.item + 1].template)])
    /\ UNCHANGED <<overflowChecks, pa, pb, pieceOps, iter, pack, input, pc, solutions, bagIterations>>

\* The bag's iterator is exhausted: solve_with returns.
BagExhausted ==
    /\ Running /\ Top.phase = "bag"
    /\ Top.item = Len(Top.items)
    /\ Return
    /\ UNCHANGED <<overflowChecks, pa, pb, pieceOps, iter, pack, input, solutions, bagIterations>>

\* The template's iterator yields a piece.
YieldPiece ==
    /\ Running /\ Top.phase = "template"
    /\ \E r \in {PieceIteratorNext(Top.it, overflowChecks)} :
           /\ r.kind = "some"
           /\ stack' = SetTop([Top EXCEPT !.phase = "piece", !.it = r.it,
                                          !.piece = r.piece])
    /\ UNCHANGED <<overflowChecks, pa, pb, pieceOps, iter, pack, input, pc, solutions, bagIterations>>

\* The template's iterator is exhausted: on to the next bag entry.
TemplateExhausted ==
    /\ Running /\ Top.phase = "template"
    /\ \E r \in {PieceIteratorNext(Top.it, overflowChecks)} :
           /\ r.kind = "none"
           /\ stack' = SetTop([Top EXCEPT !.phase = "bag", !.it = r.it])
    /\ UNCHANGED <<overflowChecks, pa, pb, pieceOps, iter, pack, input, pc, solutions, bagIterations>>

\* The template's iterator panics (unwrap of None, or overflow under checks).
IteratorPanics ==
    /\ Running /\ Top.phase = "template"
    /\ PieceIteratorNext(Top.it, overflowChecks).kind = "panic"
    /\ pc' = "panicked"
    /\ UNCHANGED <<overflowChecks, pa, pb, pieceOps, iter, pack, input, stack, solutions, bagIterations>>

\* The body of the inner loop up to `if target.fits(&piece)`: the piece moved
\* so that its minimum position lies on the target's minimum position.
AlignedPiece(target, piece) ==
    Let(Unwrap(TargetMinimumPosition(target)), LAMBDA open_position :
    Let(Unwrap(PieceMinimumPosition(piece)), LAMBDA block :
    Let(PositionTo(block, open_position), LAMBDA translation :
    Let(PieceTranslate(piece, translation.val), LAMBDA translated :
        [piece |-> translated.val,
         overflow |-> translation.overflow \/ translated.overflow]))))

\* The aligned piece fits: it is placed and recorded, and solve_with is called
\* on the remaining target with the rest of the bag.
PlaceAndRecurse ==
    /\ Running /\ Top.phase = "piece"
    /\ \E aligned \in {AlignedPiece(Top.target, Top.piece)} :
           /\ ~(aligned.overflow /\ overflowChecks)
           /\ TargetFits(Top.target, aligned.piece)
           /\ stack' = Append(SetTop([Top EXCEPT !.phase = "template", !.piece = NoPiece]),
                              Frame(TargetPlace(Top.target, aligned.piece),
                                    Top.items[Top.item].rest,
                                    SolutionRecord(Top.partial, aligned.piece)))
    /\ UNCHANGED <<overflowChecks, pa, pb, pieceOps, iter, pack, input, pc, solutions, bagIterations>>

\* The aligned piece does not fit: it is dropped.
Discard ==
    /\ Running /\ Top.phase = "piece"
    /\ \E aligned \in {AlignedPiece(Top.target, Top.piece)} :
           /\ ~(aligned.overflow /\ overflowChecks)
           /\ ~TargetFits(Top.target, aligned.piece)
           /\ stack' = SetTop([Top EXCEPT !.phase = "template", !.piece = NoPiece])
    /\ UNCHANGED <<overflowChecks, pa, pb, pieceOps, iter, pack, input, pc, solutions, bagIterations>>

\* Aligning the piece overflows in a build with overflow checks.
AlignPanics ==
    /\ Running /\ Top.phase = "piece"
    /\ AlignedPiece(Top.target, Top.piece).overflow /\ overflowChecks
    /\ pc' = "panicked"
    /\ UNCHANGED <<overflowChecks, pa, pb, pieceOps, iter, pack, input, stack, solutions, bagIterations>>

(***************************************************************************)
(* Inputs                                                                  *)
(***************************************************************************)
\* A set of cells as a position list in ascending order.
RECURSIVE SeqOfCells(_)
SeqOfCells(cells) ==
    IF cells = {} THEN <<>>
    ELSE LET m == CHOOSE p \in cells : \A q \in cells : PositionLeq(p, q)
         IN  <<m>> \o SeqOfCells(cells \ {m})

BoxCells(a, b, c) == {<<x, y, z>> : x \in 0..(a - 1), y \in 0..(b - 1), z \in 0..(c - 1)}

\* The target of the tests: the corners of the unit cube, in the tests' order.
CubeTarget ==
    << <<0, 0, 0>>, <<1, 0, 0>>, <<0, 1, 0>>, <<1, 1, 0>>,
       <<0, 0, 1>>, <<1, 0, 1>>, <<0, 1, 1>>, <<1, 1, 1>> >>

\* The templates of the tests.
Tripod == TemplateNew(<< <<0, 0, 0>>, <<1, 0, 0>>, <<0, 1, 0>>, <<0, 0, 1>> >>)
Unsymmetric == TemplateNew(<< <<0, 0, 0>>, <<1, 0, 0>>, <<1, 1, 0>>, <<1, 1, 1>>, <<1, 1, 2>> >>)
FlatSquare == TemplateNew(<< <<0, 0, 0>>, <<0, 1, 0>>, <<1, 0, 0>>, <<1, 1, 0>> >>)
Domino == TemplateNew(<< <<0, 0, 0>>, <<1, 0, 0>> >>)

\* Further templates.
Monomino == TemplateNew(<< <<0, 0, 0>> >>)
DominoY == TemplateNew(<< <<0, 1, 0>>, <<0, 0, 0>> >>)
LTromino == TemplateNew(<< <<0, 0, 0>>, <<1, 0, 0>>, <<0, 1, 0>> >>)
Skew == TemplateNew(<< <<0, 0, 0>>, <<1, -1, 0>> >>)
EmptyTemplate == TemplateNew(<<>>)
RepeatedMonomino == TemplateNew(<< <<0, 0, 0>>, <<0, 0, 0>> >>)
RepeatedDomino == TemplateNew(<< <<1, 0, 0>>, <<0, 0, 0>>, <<1, 0, 0>> >>)
AtI8Min == TemplateNew(<< <<I8Min, 0, 0>>, <<0, 0, 0>> >>)
NextToI8Min == TemplateNew(<< <<I8Min + 1, 0, 0>>, <<0, 0, 0>> >>)
WiderThanI8 == TemplateNew(<< <<-100, 0, 0>>, <<100, 0, 0>> >>)

Limited(n, template) == [count |-> n, unlimited |-> FALSE, template |-> template]
Unlimited(template) == [count |-> 0, unlimited |-> TRUE, template |-> template]

Supplies(template) ==
    {Limited(n, template) : n \in 1..MaxCount} \cup {Unlimited(template)}

BoxTargets ==
    {TargetNew(SeqOfCells(BoxCells(d[1], d[2], d[3]))) :
        d \in {e \in (1..MaxBoxCells) \X (1..MaxBoxCells) \X (1..MaxBoxCells) :
                 e[1] * e[2] * e[3] <= MaxBoxCells /\ e[1] >= e[2] /\ e[2] >= e[3]}}

GridTargets ==
    BoxTargets \cup
    { TargetNew(<<>>),
      TargetNew(<< <<1, 1, 0>>, <<0, 0, 0>>, <<1, 0, 0>> >>),
      TargetNew(<< <<-1, 2, 5>>, <<-1, 2, 6>>, <<-1, 3, 6>> >>) }

GridBags ==
    {BagNew(<<>>)}
    \cup {BagNew(<<e>>) : e \in Supplies(Monomino) \cup Supplies(Domino) \cup Supplies(LTromino)}
    \cup {BagNew(<<e, Unlimited(Domino)>>) : e \in Supplies(Monomino)}
    \cup {BagNew(<<e, Limited(1, LTromino)>>) : e \in Supplies(Domino)}
    \cup {BagNew(<<Limited(1, Domino), Limited(1, DominoY)>>),
          BagNew(<<Limited(1, TemplateWithName(Domino, "a")), Limited(1, Monomino)>>)}

Scenario(target, bag) == [target |-> target, bag |-> bag]

Scenarios ==
    {Scenario(t, b) : t \in GridTargets, b \in GridBags}
    \cup
    { \* the test solve_should_pack_pieces
      Scenario(TargetNew(CubeTarget), BagNew(<<Limited(2, Tripod)>>)),
      \* repeated positions in the target, in a template
      Scenario(TargetNew(<< <<0, 0, 0>>, <<0, 0, 0>>, <<1, 0, 0>> >>),
               BagNew(<<Unlimited(Monomino)>>)),
      Scenario(TargetNew(<< <<0, 0, 0>>, <<1, 0, 0>> >>),
               BagNew(<<Unlimited(RepeatedMonomino)>>)),
      Scenario(TargetNew(<< <<0, 0, 0>>, <<1, 0, 0>> >>),
               BagNew(<<Limited(1, RepeatedDomino)>>)),
      \* a template without positions
      Scenario(TargetNew(<< <<0, 0, 0>> >>), BagNew(<<Limited(1, EmptyTemplate)>>)),
      Scenario(TargetNew(<<>>), BagNew(<<Unlimited(EmptyTemplate)>>)),
      \* targets at the ends of the i8 range
      Scenario(TargetNew(<< <<I8Max, 0, 0>> >>), BagNew(<<Limited(1, Domino)>>)),
      Scenario(TargetNew(<< <<I8Max, 0, 0>> >>),
               BagNew(<<Limited(1, Domino), Limited(1, Monomino)>>)),
      Scenario(TargetNew(<< <<0, I8Min, 0>>, <<1, I8Max, 0>> >>),
               BagNew(<<Limited(1, Skew)>>)) }

(***************************************************************************)
(* Spec: solve(target, bag, when_solved)                                   *)
(***************************************************************************)
IdleIter == [it |-> NoIterator, out |-> None, yielded |-> <<>>, status |-> "idle"]
IdlePack == [original |-> <<>>, target |-> <<>>, placed |-> <<>>]

\* solve: the partial solution is empty and solve_with is called.
Init ==
    /\ overflowChecks \in BOOLEAN
    /\ input \in Scenarios
    /\ pc = "running"
    /\ stack = <<Frame(input.target, input.bag, SolutionEmpty)>>
    /\ solutions = <<>>
    /\ bagIterations = 0
    /\ pa = NoPiece /\ pb = NoPiece /\ pieceOps = 0
    /\ iter = IdleIter
    /\ pack = IdlePack

Next ==
    \/ WhenSolved
    \/ BeginSearch
    \/ NextTemplate
    \/ BagExhausted
    \/ YieldPiece
    \/ TemplateExhausted
    \/ IteratorPanics
    \/ PlaceAndRecurse
    \/ Discard
    \/ AlignPanics

Spec == Init /\ [][Next]_vars

\* solve runs to its end: no step that can be taken is put off forever.
FairSpec == Spec /\ WF_vars(Next)

(***************************************************************************)
(* What an exact tiling is, independently of the solver: a set of placed   *)
(* shapes, each a rotated and translated copy of a supplied template, that *)
(* partition the region, taken from the supply within its counts.          *)
(* Geometry here is over the integers.                                     *)
(***************************************************************************)
RotateCells(cells, symmetry) ==
    {<< symmetry.sign[1] * p[symmetry.perm[1]],
        symmetry.sign[2] * p[symmetry.perm[2]],
        symmetry.sign[3] * p[symmetry.perm[3]] >> : p \in cells}

Rotations(cells) ==
    {RotateCells(cells, CubeSymmetries[i]) : i \in 1..Len(CubeSymmetries)}

ShiftCells(cells, from, to) ==
    {<<p[1] + to[1] - from[1], p[2] + to[2] - from[2], p[3] + to[3] - from[3]>> : p \in cells}

\* The copies of the shape that cover cell c and lie within the region.
PlacementsCovering(shape, c, region) ==
    {placed \in UNION {{ShiftCells(r, q, c) : q \in r} : r \in Rotations(shape)} :
        placed \subseteq region}

RECURSIVE Tilings(_, _)
Tilings(region, bag) ==
    IF region = {} THEN {{}}
    ELSE LET c == CHOOSE x \in region : TRUE
         IN  UNION {
               UNION {
                 {{placed} \cup rest : rest \in Tilings(region \ placed, BagTake(bag, i))} :
                 placed \in PlacementsCovering(CellSet(bag[i].template.positions), c, region)} :
               i \in {j \in 1..Len(bag) : BagAvailable(bag[j])}}

InputTilings == Tilings(CellSet(input.target), input.bag)

\* A Solution as a tiling: the set of its pieces' cell sets.
SolutionCells(solution) ==
    {CellSet(solution[i].positions) : i \in 1..Len(solution)}

Reports(tiling) == {i \in 1..Len(solutions) : SolutionCells(solutions[i]) = tiling}

Depth == Len(stack) - 1

(***************************************************************************)
(* Properties of solve                                                     *)
(***************************************************************************)
PairwiseDisjoint(solution) ==
    \A i, j \in 1..Len(solution) :
        i # j => CellSet(solution[i].positions) \cap CellSet(solution[j].positions) = {}

\* C1 (solver soundness): every Solution handed to when_solved consists of
\* pieces that are pairwise cell-disjoint and whose cells together are exactly
\* the cells of the target solve was called with.
ReportedSolutionsAreSound ==
    \A k \in 1..Len(solutions) :
        /\ PairwiseDisjoint(solutions[k])
        /\ UNION SolutionCells(solutions[k]) = CellSet(input.target)

\* A solution of at least two pieces has been reported and solve has returned.
MultiPieceSolutionReported ==
    /\ pc = "done"
    /\ \E k \in 1..Len(solutions) : Len(solutions[k]) >= 2

IsCubeExample ==
    input = Scenario(TargetNew(CubeTarget), BagNew(<<Limited(2, Tripod)>>))

\* C2 (completeness and uniqueness): when solve has returned, every exact
\* tiling of the target from the supply has been reported exactly once, and
\* for the cube and two tripods the callback ran 4 times with 4 distinct
\* solutions.
EveryTilingReportedOnce ==
    pc = "done" =>
        /\ \A tiling \in InputTilings : Cardinality(Reports(tiling)) = 1
        /\ IsCubeExample =>
              /\ Len(solutions) = 4
              /\ \A i, j \in 1..4 : i # j => solutions[i] # solutions[j]

\* No two entries of the supply hold the same shape up to rotation.
EntriesAreDifferentShapes ==
    \A i, j \in 1..Len(input.bag) :
        i # j => Rotations(CellSet(input.bag[i].template.positions))
                   \cap {ShiftCells(CellSet(input.bag[j].template.positions), q, Origin) :
                            q \in CellSet(input.bag[j].template.positions)}
                 = {}

\* No cell of the target has a coordinate at an end of the i8 range.
TargetInsideI8 ==
    \A p \in CellSet(input.target) : \A i \in 1..3 : p[i] # I8Min /\ p[i] # I8Max

\* No template of the supply lists a position twice.
TemplatesWithoutRepeats ==
    \A i \in 1..Len(input.bag) :
        Cardinality(CellSet(input.bag[i].template.positions))
          = Len(input.bag[i].template.positions)

\* What holds of C2: with entries of different shapes, none listing a position
\* twice, every tiling is reported exactly once; and every reported solution
\* is a tiling, unless a build without overflow checks wrapped a piece around
\* the i8 range.
EveryTilingReportedOnceForDifferentShapes ==
    (pc = "done" /\ EntriesAreDifferentShapes /\ TemplatesWithoutRepeats) =>
        /\ \A tiling \in InputTilings : Cardinality(Reports(tiling)) = 1
        /\ (overflowChecks \/ TargetInsideI8) =>
              \A k \in 1..Len(solutions) : SolutionCells(solutions[k]) \in InputTilings

\* C3 (empty target): solve on a target without cells calls when_solved
\* exactly once, with the empty Solution, and never iterates the supply.
EmptyTargetReportsEmptySolutionOnce ==
    input.target = TargetNew(<<>>) =>
        /\ pc # "panicked"
        /\ bagIterations = 0
        /\ solutions = IF pc = "done" THEN <<SolutionEmpty>> ELSE <<>>

\* solve has returned from an empty target with an unlimited supply.
EmptyTargetSolved ==
    /\ pc = "done"
    /\ input.target = TargetNew(<<>>)
    /\ \E i \in 1..Len(input.bag) : input.bag[i].unlimited
    /\ solutions = <<SolutionEmpty>>

\* C4 (unsolvable input): when the target has no exact tiling from the supply,
\* solve does not panic and never calls when_solved.
UnsolvableInputReportsNothing ==
    InputTilings = {} => (pc # "panicked" /\ solutions = <<>>)

MinimaIncrease(solution) ==
    \A i \in 1..(Len(solution) - 1) :
        PositionLess(Unwrap(MinimumOf(solution[i].positions)),
                     Unwrap(MinimumOf(solution[i + 1].positions)))

\* C9 (placement order): each call of solve_with below the first was made with
\* its caller's partial solution plus one piece, recorded at the end, whose
\* minimum position is the caller's target's minimum position; so in every
\* partial and every reported Solution the pieces stand in placement order
\* with strictly increasing minimum positions.
PiecesRecordedInPlacementOrder ==
    /\ \A k \in 2..Len(stack) :
          /\ Len(stack[k].partial) = Len(stack[k - 1].partial) + 1
          /\ SubSeq(stack[k].partial, 1, Len(stack[k - 1].partial)) = stack[k - 1].partial
          /\ PieceMinimumPosition(stack[k].partial[Len(stack[k].partial)])
               = TargetMinimumPosition(stack[k - 1].target)
    /\ \A k \in 1..Len(stack) : MinimaIncrease(stack[k].partial)
    /\ \A k \in 1..Len(solutions) : MinimaIncrease(solutions[k])

\* Three pieces have been placed one after the other.
ThreePiecesPlaced ==
    /\ Len(stack) >= 4
    /\ Len(Top.partial) = 3

\* The least number of cells a template of the supply covers.
SmallestPieceSize(bag) ==
    CHOOSE n \in 0..(I8Modulus) :
        /\ \E i \in 1..Len(bag) : Cardinality(CellSet(bag[i].template.positions)) = n
        /\ \A i \in 1..Len(bag) : Cardinality(CellSet(bag[i].template.positions)) >= n

\* Each recursive call has a target of strictly fewer cells than its caller's.
TargetsShrink ==
    \A k \in 2..Len(stack) : Len(stack[k].target) < Len(stack[k - 1].target)

\* The depth of the recursion times the smallest piece size is at most the
\* target's cell count.
DepthWithinBound ==
    Depth > 0 =>
        Depth * SmallestPieceSize(input.bag) <= Cardinality(CellSet(input.target))

\* C10 (termination and depth bound): solve comes to an end; each recursive
\* call receives a target with strictly fewer cells than its caller's, and the
\* recursion depth never exceeds the target's cell count divided by the
\* smallest piece size.
SolveTerminatesWithinDepthBound ==
    /\ <>(pc # "running")
    /\ [](TargetsShrink /\ DepthWithinBound)

\* With unlimited copies the recursion has reached the depth bound, three deep.
UnlimitedSupplyAtDepthBound ==
    /\ \E i \in 1..Len(input.bag) : input.bag[i].unlimited
    /\ Depth >= 3
    /\ Depth * SmallestPieceSize(input.bag) = Cardinality(CellSet(input.target))

(***************************************************************************)
(* IterSpec: template.into_iter() and then next() until None or a panic.   *)
(***************************************************************************)
IdleInput == Scenario(TargetNew(<<>>), BagNew(<<>>))

SolverIdle ==
    /\ input = IdleInput
    /\ pc = "idle"
    /\ stack = <<>>
    /\ solutions = <<>>
    /\ bagIterations = 0

IterTemplates ==
    {TemplateNew(SeqOfCells(cells)) :
        cells \in {c \in SUBSET BoxCells(2, 2, 2) :
                     Cardinality(c) >= 1 /\ Cardinality(c) <= MaxTemplateCells}}
    \cup {Tripod, Unsymmetric, FlatSquare, DominoY, Skew,
          TemplateWithName(Domino, "a"),
          EmptyTemplate, RepeatedMonomino, RepeatedDomino,
          AtI8Min, NextToI8Min, WiderThanI8}

IterInit ==
    /\ overflowChecks \in BOOLEAN
    /\ \E template \in IterTemplates :
          iter = [it |-> PieceIteratorNew(template), out |-> None,
                  yielded |-> <<>>, status |-> "active"]
    /\ pa = NoPiece /\ pb = NoPiece /\ pieceOps = 0
    /\ pack = IdlePack
    /\ SolverIdle

\* next() returns Some(piece).
IterYield ==
    /\ iter.status = "active"
    /\ \E r \in {PieceIteratorNext(iter.it, overflowChecks)} :
          /\ r.kind = "some"
          /\ iter' = [iter EXCEPT !.it = r.it, !.out = Some(r.piece),
                                  !.yielded = Append(@, r.piece)]
    /\ UNCHANGED <<overflowChecks, pa, pb, pieceOps, pack, input, pc, stack,
                   solutions, bagIterations>>

\* next() returns None.
IterEnd ==
    /\ iter.status = "active"
    /\ \E r \in {PieceIteratorNext(iter.it, overflowChecks)} :
          /\ r.kind = "none"
          /\ iter' = [iter EXCEPT !.it = r.it, !.out = None, !.status = "exhausted"]
    /\ UNCHANGED <<overflowChecks, pa, pb, pieceOps, pack, input, pc, stack,
                   solutions, bagIterations>>

\* next() panics.
IterPanic ==
    /\ iter.status = "active"
    /\ \E r \in {PieceIteratorNext(iter.it, overflowChecks)} :
          /\ r.kind = "panic"
          /\ iter' = [iter EXCEPT !.it = r.it, !.out = None, !.status = "panicked"]
    /\ UNCHANGED <<overflowChecks, pa, pb, pieceOps, pack, input, pc, stack,
                   solutions, bagIterations>>

IterNext == IterYield \/ IterEnd \/ IterPanic

IterSpec == IterInit /\ [][IterNext]_vars

\* The cells of a shape moved so that their minimum position is the origin.
Anchored(cells) ==
    IF cells = {} THEN {}
    ELSE ShiftCells(cells, CHOOSE p \in cells : \A q \in cells : PositionLeq(p, q), Origin)

\* No rotation but the identity maps the shape onto a translate of itself.
NoRotationalSymmetry(cells) ==
    \A i \in 2..Len(CubeSymmetries) :
        Anchored(RotateCells(cells, CubeSymmetries[i])) # Anchored(cells)

OrientationCounts == {1, 2, 3, 4, 6, 8, 12, 24}

TemplateCells == CellSet(iter.it.template.positions)

YieldedPieceAnchoredAtOrigin ==
    IsSome(iter.out) => PieceMinimumPosition(Unwrap(iter.out)) = Some(Origin)

\* What holds of C6: with every coordinate of the template above i8's minimum
\* and no two further apart than i8's maximum, every yielded Piece has its
\* minimum position at the origin.
TemplateWithinI8Span ==
    \A i \in 1..3 : \A p, q \in TemplateCells :
        p[i] # I8Min /\ p[i] - q[i] <= I8Max

YieldedPieceAnchoredWithinSpan ==
    (IsSome(iter.out) /\ TemplateWithinI8Span) =>
        PieceMinimumPosition(Unwrap(iter.out)) = Some(Origin)

(***************************************************************************)
(* PackSpec: Target::new(positions), then place(piece) for pieces that     *)
(* fit, as solve_with does.                                                *)
(***************************************************************************)
PackTargets ==
    {TargetNew(SeqOfCells(cells)) : cells \in SUBSET BoxCells(2, 2, 1)}
    \cup {TargetNew(<<Origin, Origin>>),
          TargetNew(<<<<1, 0, 0>>, Origin, <<1, 0, 0>>, <<0, 1, 0>>>>),
          CubeTarget}

PackPieces ==
    {PieceNew(SeqOfCells(cells)) :
        cells \in {c \in SUBSET BoxCells(2, 2, 1) :
                     Cardinality(c) >= 1 /\ Cardinality(c) <= MaxTemplateCells - 1}}
    \cup {PieceFromTemplate(RepeatedMonomino), PieceFromTemplate(RepeatedDomino),
          PieceFromTemplate(Tripod)}

PackInit ==
    /\ overflowChecks \in BOOLEAN
    /\ \E target \in PackTargets :
          pack = [original |-> target, target |-> target, placed |-> <<>>]
    /\ pa = NoPiece /\ pb = NoPiece /\ pieceOps = 0
    /\ iter = IdleIter
    /\ SolverIdle

\* if target.fits(&piece) { target.place(&piece) }
PackPlace ==
    /\ Len(pack.placed) < MaxPlaced
    /\ \E piece \in PackPieces :
          /\ TargetFits(pack.target, piece)
          /\ pack' = [pack EXCEPT !.target = TargetPlace(@, piece),
                                  !.placed = Append(@, piece)]
    /\ UNCHANGED <<overflowChecks, pa, pb, pieceOps, iter, input, pc, stack,
                   solutions, bagIterations>>

PackNext == PackPlace

PackSpec == PackInit /\ [][PackNext]_vars

RECURSIVE SumOfLengths(_)
SumOfLengths(pieces) ==
    IF pieces = <<>> THEN 0
    ELSE Len(pieces[1].positions) + SumOfLengths(Tail(pieces))

\* C7 (target packing invariant): after pieces were placed, the target's
\* remaining position count is the original count minus the sum of the placed
\* pieces' position counts, and no cell belongs to two placed pieces; also for
\* position lists with a repeated position.
RemainingCountIsOriginalMinusPlaced ==
    /\ Len(pack.target) = Len(pack.original) - SumOfLengths(pack.placed)
    /\ \A i, j \in 1..Len(pack.placed) :
          i # j => CellSet(pack.placed[i].positions)
                     \cap CellSet(pack.placed[j].positions) = {}

NoRepeatedPosition(positions) == Cardinality(CellSet(positions)) = Len(positions)

\* What holds of C7: when neither the target's nor a placed piece's list has a
\* repeated position, the count identity holds and no cell is in two pieces.
RemainingCountWithoutRepeats ==
    (/\ NoRepeatedPosition(pack.original)
     /\ \A i \in 1..Len(pack.placed) : NoRepeatedPosition(pack.placed[i].positions))
    => RemainingCountIsOriginalMinusPlaced

(***************************************************************************)
(* PieceSpec: two pieces built by Piece::new / Piece::named, the first one *)
(* then transformed and translated.                                        *)
(***************************************************************************)
PieceLists ==
    { <<Origin>>,
      <<Origin, Origin>>,
      <<Origin, <<1, 0, 0>>>>,
      <<<<1, 0, 0>>, Origin>>,
      <<<<1, 0, 0>>, Origin, <<1, 0, 0>>>>,
      <<Origin, <<0, 1, 0>>>>,
      <<<<0, 0, 1>>, Origin>>,
      <<Origin, <<1, 0, 0>>, <<1, 1, 0>>, <<1, 1, 1>>>>,
      <<<<1, 1, 1>>, <<1, 1, 0>>, <<1, 0, 0>>, Origin>> }

PieceTranslations ==
    { <<5, -3, 0>>, <<-1, 0, 0>>, <<0, 0, 1>>, <<I8Max, 0, 0>> }

PieceInit ==
    /\ overflowChecks \in BOOLEAN
    /\ pa \in {PieceNew(positions) : positions \in PieceLists}
              \cup {PieceNamed(positions, "a") : positions \in PieceLists}
    /\ pb \in {PieceNew(positions) : positions \in PieceLists}
    /\ pieceOps = 0
    /\ iter = IdleIter
    /\ pack = IdlePack
    /\ SolverIdle

\* pa = pa.transform(symmetry)
TransformPiece ==
    /\ pieceOps < MaxPieceOps
    /\ \E i \in 1..Len(CubeSymmetries) :
       \E r \in {PieceTransform(pa, CubeSymmetries[i])} :
          /\ ~(overflowChecks /\ r.overflow)
          /\ pa' = r.val
    /\ pieceOps' = pieceOps + 1
    /\ UNCHANGED <<overflowChecks, pb, iter, pack, input, pc, stack,
                   solutions, bagIterations>>

\* pa = pa.translate(translation)
TranslatePiece ==
    /\ pieceOps < MaxPieceOps
    /\ \E translation \in PieceTranslations :
       \E r \in {PieceTranslate(pa, translation)} :
          /\ ~(overflowChecks /\ r.overflow)
          /\ pa' = r.val
    /\ pieceOps' = pieceOps + 1
    /\ UNCHANGED <<overflowChecks, pb, iter, pack, input, pc, stack,
                   solutions, bagIterations>>

PieceNext == TransformPiece \/ TranslatePiece

PieceSpec == PieceInit /\ [][PieceNext]_vars

SortedAndUnique(positions) ==
    \A i \in 1..(Len(positions) - 1) : PositionLess(positions[i], positions[i + 1])

\* C8 (structural piece equality): two Pieces are equal exactly when they have
\* the same set of positions, whatever the order they were given in and
\* whatever their name; the stored positions are unique and sorted after new,
\* transform and translate.
PiecesEqualIffSamePositionSet ==
    /\ PieceEq(pa, pb) <=> CellSet(pa.positions) = CellSet(pb.positions)
    /\ SortedAndUnique(pa.positions)
    /\ SortedAndUnique(pb.positions)

\* What holds of C8: two unnamed Pieces without repeated positions, built and
\* moved without integer overflow, are equal exactly when their position sets
\* are, and their stored positions are sorted.
PiecesEqualIffSamePositionSetWithoutRepeats ==
    (/\ pa.name = None /\ pb.name = None
     /\ NoRepeatedPosition(pa.positions) /\ NoRepeatedPosition(pb.positions)
     /\ \A p \in CellSet(pa.positions) : p[1] >= -1)
    => PiecesEqualIffSamePositionSet

====
